---- MODULE Spec2Model ----
(***************************************************************************)
(* Model of png2argb.py: one run of main() with its two positional        *)
(* arguments already parsed.  perform_conversion() asks the external      *)
(* decoder (pngtopam -alphapam) for a PAM container, validates it,        *)
(* rearranges every RGBA group to ARGB and writes the result.             *)
(*                                                                         *)
(* Bytes are the integers 0..255, byte strings are sequences of them.     *)
(* Python indices are 0-based; the operators below keep them 0-based and  *)
(* translate to the 1-based sequences of TLA+ where they index.           *)
(***************************************************************************)
EXTENDS Integers, Sequences, FiniteSets

VARIABLES
    pc,                 \* position of the run in main / perform_conversion
    pam,                \* bytes returned by png2pam
    end_header_index,   \* index of the first payload byte
    pam_data,           \* pam[end_header_index:]
    pam_iter,           \* number of items the iterator over pam_data has handed out
    argb_data_list,     \* the list the loop appends to
    argb_data,          \* bytes(argb_data_list)
    exc,                \* the exception that is propagating, or "None"
    exitCode,           \* exit status of the process, -1 while it runs
    decoder,            \* how the decoder subprocess ended
    decoderCalls,       \* number of subprocess.run calls made
    iterations,         \* number of passes of the loop that appended a group
    log,                \* the steps of perform_conversion taken so far, in order
    preExisted,         \* whether the output path held a file before the run
    fileExists,         \* whether the output path holds a file
    fileContent,        \* its content
    fileOpen,           \* whether the handle f is open
    openCount           \* number of times the output path was opened

vars == <<pc, pam, end_header_index, pam_data, pam_iter, argb_data_list, argb_data,
          exc, exitCode, decoder, decoderCalls, iterations, log,
          preExisted, fileExists, fileContent, fileOpen, openCount>>

----------------------------------------------------------------------------
(* Bounds of the model. *)

\* number of payload byte patterns the decoder output is drawn from
NumPatterns == 4

\* number of points at which a failing write may stop
NumWriteCuts == 2

\* longest payload handed to the rearrangement loop in LoopSpec
MaxLoopLen == 5

----------------------------------------------------------------------------
(* Byte strings of the program. *)

\* b"P7\n"
PAM_SIGNATURE == <<80, 55, 10>>

\* b"\nENDHDR\n"
END_HEADER_CHUNK == <<10, 69, 78, 68, 72, 68, 82, 10>>

\* 4 * 32 * 32
EXPECTED_LEN == 4 * 32 * 32

\* the value next(pam_iter, None) returns at the end of the data; no byte equals it
None == -1

----------------------------------------------------------------------------
(* bytes operations *)

\* pam.startswith(prefix)
StartsWith(s, prefix) ==
    /\ Len(s) >= Len(prefix)
    /\ \A k \in 1..Len(prefix) : s[k] = prefix[k]

\* whether sub occurs in s at 0-based offset i
MatchAt(s, sub, i) ==
    /\ i + Len(sub) <= Len(s)
    /\ \A k \in 1..Len(sub) : s[i + k] = sub[k]

\* the highest offset at which sub occurs (bytes.rfind), or -1
FindLast(s, sub) ==
    LET hits == {i \in 0..(Len(s) - Len(sub)) : MatchAt(s, sub, i)}
    IN  IF hits = {} THEN -1
        ELSE CHOOSE i \in hits : \A j \in hits : j <= i

\* the lowest offset at which sub occurs, or -1 (bytes.index raises ValueError then)
Find(s, sub) ==
    LET hits == {i \in 0..(Len(s) - Len(sub)) : MatchAt(s, sub, i)}
    IN  IF hits = {} THEN -1
        ELSE CHOOSE i \in hits : \A j \in hits : i <= j

\* s[from:]
SliceFrom(s, from) == SubSeq(s, from + 1, Len(s))

\* next(it, None) on an iterator over data that has handed out pos items
NextOrNone(data, pos) == IF pos < Len(data) THEN data[pos + 1] ELSE None

\* a truth test on r (0 is falsy) instead of the identity test
IsNoneFalsy(r) == r = None \/ r = 0

\* r is None
IsNone(r) == r = None

\* bytes(list) accepts exactly the lists of integers in range(256)
BytesOk(list) == \A k \in 1..Len(list) : list[k] \in 0..255

----------------------------------------------------------------------------
(* What the decoder may print. *)

\* "P7\nENDHDR\n": the signature's newline opens the marker
HdrMinimal == <<80, 55, 10, 69, 78, 68, 72, 68, 82, 10>>

\* "P7\nWIDTH 32\nHEIGHT 32\nDEPTH 4\nMAXVAL 255\nTUPLTYPE RGB_ALPHA\nENDHDR\n"
HdrFull ==
    <<80, 55, 10, 87, 73, 68, 84, 72, 32, 51, 50, 10, 72, 69, 73, 71, 72, 84, 32,
      51, 50, 10, 68, 69, 80, 84, 72, 32, 52, 10, 77, 65, 88, 86, 65, 76, 32, 50,
      53, 53, 10, 84, 85, 80, 76, 84, 89, 80, 69, 32, 82, 71, 66, 95, 65, 76, 80,
      72, 65, 10, 69, 78, 68, 72, 68, 82, 10>>

\* "P6\nENDHDR\n": wrong signature, marker present
HdrBadSig == <<80, 54, 10, 69, 78, 68, 72, 68, 82, 10>>

\* "P7\nWIDTH 32\n": signature, no marker
HdrNoMarker == <<80, 55, 10, 87, 73, 68, 84, 72, 32, 51, 50, 10>>

\* "P7\nENDHDR": the marker lacks its closing newline
HdrCutMarker == <<80, 55, 10, 69, 78, 68, 72, 68, 82>>

Headers == {<<>>, HdrMinimal, HdrFull, HdrBadSig, HdrNoMarker, HdrCutMarker}

\* byte i (0-based) of payload pattern p
PatternByte(p, i) ==
    CASE p = 1 -> <<16, 32, 48, 64>>[(i % 4) + 1]       \* r=0x10 g=0x20 b=0x30 a=0x40
      [] p = 2 -> END_HEADER_CHUNK[(i % 8) + 1]          \* the payload spells the marker
      [] p = 3 -> i % 256                                \* every byte value, red 0 at i = 0
      [] p = 4 -> 0
      [] OTHER -> (i * p + (i \div 4)) % 256

Payload(p, n) == [i \in 1..n |-> PatternByte(p, i - 1)]

PayloadLengths == {0, 16, EXPECTED_LEN - 1, EXPECTED_LEN, EXPECTED_LEN + 1}

DecoderOutputs ==
    {h \o Payload(p, n) : h \in Headers, p \in 1..NumPatterns, n \in PayloadLengths}

\* how the subprocess may end: exit status 0, a non-zero status, death by a
\* signal, or pngtopam not being installed
DecoderResults == {"ok", "nonzero", "signal", "missing"}

\* content of the output path when it exists before the run ("old")
OldContent == <<111, 108, 100>>

----------------------------------------------------------------------------
(* Steps of perform_conversion, in program order. *)

Pipeline == <<"png2pam", "startswith", "index", "slice", "len",
              "rearrange", "bytes", "open", "write", "close">>

Init ==
    /\ pc = "png2pam"
    /\ pam = <<>>
    /\ end_header_index = 0
    /\ pam_data = <<>>
    /\ pam_iter = 0
    /\ argb_data_list = <<>>
    /\ argb_data = <<>>
    /\ exc = "None"
    /\ exitCode = -1
    /\ decoder = "not run"
    /\ decoderCalls = 0
    /\ iterations = 0
    /\ log = <<>>
    /\ preExisted \in BOOLEAN
    /\ fileExists = preExisted
    /\ fileContent = IF preExisted THEN OldContent ELSE <<>>
    /\ fileOpen = FALSE
    /\ openCount = 0

\* raise e: the exception leaves perform_conversion and main
Raise(e) ==
    /\ exc' = e
    /\ pc' = "raised"

\* png2pam with check=False: the exit status of the decoder is ignored
Png2pamUnchecked ==
    /\ pc = "png2pam"
    /\ \E res \in DecoderResults, out \in DecoderOutputs :
         /\ decoder' = res
         /\ decoderCalls' = decoderCalls + 1
         /\ log' = Append(log, "png2pam")
         /\ IF res = "missing"
              THEN Raise("FileNotFoundError") /\ pam' = pam
              ELSE pam' = out /\ pc' = "startswith" /\ exc' = exc
    /\ UNCHANGED <<end_header_index, pam_data, pam_iter, argb_data_list, argb_data,
                   exitCode, iterations, preExisted, fileExists, fileContent,
                   fileOpen, openCount>>

\* pam = png2pam(input_png_path): subprocess.run(..., stdout=PIPE, check=True)
Png2pam ==
    /\ pc = "png2pam"
    /\ \E res \in DecoderResults, out \in DecoderOutputs :
         /\ decoder' = res
         /\ decoderCalls' = decoderCalls + 1
         /\ log' = Append(log, "png2pam")
         /\ IF res = "missing"
              THEN Raise("FileNotFoundError") /\ pam' = pam
              ELSE IF res # "ok"
                THEN Raise("CalledProcessError") /\ pam' = pam
                ELSE pam' = out /\ pc' = "startswith" /\ exc' = exc
    /\ UNCHANGED <<end_header_index, pam_data, pam_iter, argb_data_list, argb_data,
                   exitCode, iterations, preExisted, fileExists, fileContent,
                   fileOpen, openCount>>

\* the signature test left out
CheckSignatureSkipped ==
    /\ pc = "startswith"
    /\ log' = Append(log, "startswith")
    /\ pc' = "index"
    /\ UNCHANGED <<pam, end_header_index, pam_data, pam_iter, argb_data_list,
                   argb_data, exc, exitCode, decoder, decoderCalls, iterations,
                   preExisted, fileExists, fileContent, fileOpen, openCount>>

\* if not pam.startswith(b"P7\n"): raise ValueError(...)
CheckSignature ==
    /\ pc = "startswith"
    /\ log' = Append(log, "startswith")
    /\ IF ~StartsWith(pam, PAM_SIGNATURE)
         THEN Raise("ValueError: invalid PAM")
         ELSE pc' = "index" /\ exc' = exc
    /\ UNCHANGED <<pam, end_header_index, pam_data, pam_iter, argb_data_list,
                   argb_data, exitCode, decoder, decoderCalls, iterations,
                   preExisted, fileExists, fileContent, fileOpen, openCount>>

\* pam.find instead of pam.index: -1 is taken for an offset
FindEndHeaderNoRaise ==
    /\ pc = "index"
    /\ log' = Append(log, "index")
    /\ end_header_index' = Find(pam, END_HEADER_CHUNK) + Len(END_HEADER_CHUNK)
    /\ pc' = "slice"
    /\ UNCHANGED <<pam, pam_data, pam_iter, argb_data_list, argb_data, exc,
                   exitCode, decoder, decoderCalls, iterations,
                   preExisted, fileExists, fileContent, fileOpen, openCount>>

\* pam.rindex instead of pam.index: the last occurrence of the marker
FindEndHeaderLast ==
    /\ pc = "index"
    /\ log' = Append(log, "index")
    /\ LET end_header_start_index == FindLast(pam, END_HEADER_CHUNK)
       IN  IF end_header_start_index = -1
             THEN Raise("ValueError: subsection not found")
                  /\ end_header_index' = end_header_index
             ELSE /\ end_header_index' = end_header_start_index + Len(END_HEADER_CHUNK)
                  /\ pc' = "slice"
                  /\ exc' = exc
    /\ UNCHANGED <<pam, pam_data, pam_iter, argb_data_list, argb_data,
                   exitCode, decoder, decoderCalls, iterations,
                   preExisted, fileExists, fileContent, fileOpen, openCount>>

\* end_header_start_index = pam.index(END_HEADER_CHUNK)
\* end_header_index = end_header_start_index + len(END_HEADER_CHUNK)
FindEndHeader ==
    /\ pc = "index"
    /\ log' = Append(log, "index")
    /\ LET end_header_start_index == Find(pam, END_HEADER_CHUNK)
       IN  IF end_header_start_index = -1
             THEN Raise("ValueError: subsection not found")
                  /\ end_header_index' = end_header_index
             ELSE /\ end_header_index' = end_header_start_index + Len(END_HEADER_CHUNK)
                  /\ pc' = "slice"
                  /\ exc' = exc
    /\ UNCHANGED <<pam, pam_data, pam_iter, argb_data_list, argb_data,
                   exitCode, decoder, decoderCalls, iterations,
                   preExisted, fileExists, fileContent, fileOpen, openCount>>

\* pam_data = pam[end_header_index:]
ExtractPayload ==
    /\ pc = "slice"
    /\ log' = Append(log, "slice")
    /\ pam_data' = SliceFrom(pam, end_header_index)
    /\ pc' = "len"
    /\ UNCHANGED <<pam, end_header_index, pam_iter, argb_data_list, argb_data, exc,
                   exitCode, decoder, decoderCalls, iterations,
                   preExisted, fileExists, fileContent, fileOpen, openCount>>

\* a lower bound on the length instead of the exact length
CheckLengthAtLeast ==
    /\ pc = "len"
    /\ log' = Append(log, "len")
    /\ IF Len(pam_data) < EXPECTED_LEN
         THEN Raise("ValueError: wrong length")
         ELSE pc' = "rearrange" /\ exc' = exc
    /\ UNCHANGED <<pam, end_header_index, pam_data, pam_iter, argb_data_list,
                   argb_data, exitCode, decoder, decoderCalls, iterations,
                   preExisted, fileExists, fileContent, fileOpen, openCount>>

\* if len(pam_data) != 4 * 32 * 32: raise ValueError(...)
CheckLength ==
    /\ pc = "len"
    /\ log' = Append(log, "len")
    /\ IF Len(pam_data) # EXPECTED_LEN
         THEN Raise("ValueError: wrong length")
         ELSE pc' = "rearrange" /\ exc' = exc
    /\ UNCHANGED <<pam, end_header_index, pam_data, pam_iter, argb_data_list,
                   argb_data, exitCode, decoder, decoderCalls, iterations,
                   preExisted, fileExists, fileContent, fileOpen, openCount>>

\* the loop as it starts: argb_data_list = []; pam_iter = iter(pam_data)
LoopStart == [status |-> "loop", pam_iter |-> 0, argb_data_list |-> <<>>, iterations |-> 0]

\* a group cut short ends the loop quietly, as the end of data at the red byte does
LoopBodyLenient(data, st) ==
    LET r == NextOrNone(data, st.pam_iter)
        g == NextOrNone(data, st.pam_iter + 1)
        b == NextOrNone(data, st.pam_iter + 2)
        a == NextOrNone(data, st.pam_iter + 3)
    IN  IF IsNone(r) \/ g = None \/ b = None \/ a = None
          THEN [st EXCEPT !.status = "break", !.pam_iter = Len(data)]
          ELSE [st EXCEPT !.pam_iter = @ + 4,
                          !.argb_data_list = @ \o <<a, r, g, b>>,
                          !.iterations = @ + 1]

\* one pass of "while True": r = next(pam_iter, None); if r is None: break;
\* g = next(pam_iter); b = next(pam_iter); a = next(pam_iter); four appends.
\* next() without a default raises StopIteration on an exhausted iterator.
LoopBody(data, st) ==
    LET r == NextOrNone(data, st.pam_iter)
        g == NextOrNone(data, st.pam_iter + 1)
        b == NextOrNone(data, st.pam_iter + 2)
        a == NextOrNone(data, st.pam_iter + 3)
    IN  IF IsNone(r)
          THEN [st EXCEPT !.status = "break"]
          ELSE IF g = None \/ b = None \/ a = None
            THEN [st EXCEPT !.status = "StopIteration", !.pam_iter = Len(data)]
            ELSE [st EXCEPT !.pam_iter = @ + 4,
                            !.argb_data_list = @ \o <<a, r, g, b>>,
                            !.iterations = @ + 1]

\* "while True": the body is run again and again until the loop is left, here
\* for at most k passes (status stays "loop" if k passes do not end it).  The
\* passes are split in two halves only to keep the evaluation shallow.
RECURSIVE WhileTrue(_, _, _)
WhileTrue(data, st, k) ==
    IF k = 0 \/ st.status # "loop" THEN st
    ELSE IF k = 1 THEN LoopBody(data, st)
    ELSE LET half == WhileTrue(data, st, k \div 2)
         IN  WhileTrue(data, half, k - (k \div 2))

\* every pass that does not leave the loop takes four items, so a loop that
\* ends at all ends within this many passes
MaxPasses(data) == (Len(data) \div 4) + 1

\* "# rearrange bytes": the list, the iterator and the whole loop
Rearrange ==
    /\ pc = "rearrange"
    /\ log' = Append(log, "rearrange")
    /\ LET end == WhileTrue(pam_data, LoopStart, MaxPasses(pam_data))
       IN  /\ pam_iter' = end.pam_iter
           /\ argb_data_list' = end.argb_data_list
           /\ iterations' = end.iterations
           /\ IF end.status = "StopIteration"
                THEN Raise("StopIteration")
                ELSE /\ pc' = (IF end.status = "break" THEN "bytes" ELSE "loop")
                     /\ exc' = exc
    /\ UNCHANGED <<pam, end_header_index, pam_data, argb_data, exitCode, decoder,
                   decoderCalls, preExisted, fileExists, fileContent, fileOpen,
                   openCount>>

\* argb_data = bytes(argb_data_list)
ToBytes ==
    /\ pc = "bytes"
    /\ log' = Append(log, "bytes")
    /\ IF BytesOk(argb_data_list)
         THEN argb_data' = argb_data_list /\ pc' = "open" /\ exc' = exc
         ELSE Raise("ValueError: bytes must be in range(0, 256)") /\ argb_data' = argb_data
    /\ UNCHANGED <<pam, end_header_index, pam_data, pam_iter, argb_data_list,
                   exitCode, decoder, decoderCalls, iterations,
                   preExisted, fileExists, fileContent, fileOpen, openCount>>

\* open(output_bin_path, "wb"): creates the file or truncates it, or fails
\* with OSError and leaves the path as it was
OpenOutput ==
    /\ pc = "open"
    /\ log' = Append(log, "open")
    /\ \E ok \in BOOLEAN :
         IF ok
           THEN /\ fileExists' = TRUE
                /\ fileContent' = <<>>
                /\ fileOpen' = TRUE
                /\ openCount' = openCount + 1
                /\ pc' = "write"
                /\ exc' = exc
           ELSE /\ Raise("OSError")
                /\ UNCHANGED <<fileExists, fileContent, fileOpen, openCount>>
    /\ UNCHANGED <<pam, end_header_index, pam_data, pam_iter, argb_data_list,
                   argb_data, exitCode, decoder, decoderCalls, iterations, preExisted>>

\* the offsets at which a write that fails may have stopped
WriteCuts(data) == {(k * Len(data)) \div NumWriteCuts : k \in 0..(NumWriteCuts - 1)}

\* f = open(...); f.write(...); f.close(): an exception in write skips the close
WriteOutputNoWith ==
    /\ pc = "write"
    /\ log' = Append(log, "write")
    /\ \E n \in WriteCuts(argb_data) \cup {Len(argb_data)} :
         /\ fileContent' = fileContent \o SubSeq(argb_data, 1, n)
         /\ IF n = Len(argb_data)
              THEN pc' = "close" /\ exc' = exc
              ELSE Raise("OSError")
    /\ UNCHANGED <<pam, end_header_index, pam_data, pam_iter, argb_data_list,
                   argb_data, exitCode, decoder, decoderCalls, iterations,
                   preExisted, fileExists, fileOpen, openCount>>

\* f.write(argb_data) inside the with block: all of the data reaches the file,
\* or the write fails with OSError after part of it did; either way control
\* passes to the exit of the with block
WriteOutput ==
    /\ pc = "write"
    /\ log' = Append(log, "write")
    /\ \E n \in WriteCuts(argb_data) \cup {Len(argb_data)} :
         /\ fileContent' = fileContent \o SubSeq(argb_data, 1, n)
         /\ exc' = IF n = Len(argb_data) THEN exc ELSE "OSError"
    /\ pc' = "close"
    /\ UNCHANGED <<pam, end_header_index, pam_data, pam_iter, argb_data_list,
                   argb_data, exitCode, decoder, decoderCalls, iterations,
                   preExisted, fileExists, fileOpen, openCount>>

\* leaving "with open(...) as f": f is closed, a pending exception goes on
CloseOutput ==
    /\ pc = "close"
    /\ log' = Append(log, "close")
    /\ fileOpen' = FALSE
    /\ pc' = IF exc = "None" THEN "returned" ELSE "raised"
    /\ UNCHANGED <<pam, end_header_index, pam_data, pam_iter, argb_data_list,
                   argb_data, exc, exitCode, decoder, decoderCalls, iterations,
                   preExisted, fileExists, fileContent, openCount>>

\* a handler around the call that reports success whatever happened
ExitSwallow ==
    /\ pc \in {"returned", "raised"}
    /\ exitCode' = 0
    /\ pc' = "exited"
    /\ UNCHANGED <<pam, end_header_index, pam_data, pam_iter, argb_data_list,
                   argb_data, exc, decoder, decoderCalls, iterations, log,
                   preExisted, fileExists, fileContent, fileOpen, openCount>>

\* main() returns and the interpreter exits with status 0, or the exception is
\* caught by nobody and the interpreter prints the traceback and exits with 1
Exit ==
    /\ pc \in {"returned", "raised"}
    /\ exitCode' = IF exc = "None" THEN 0 ELSE 1
    /\ pc' = "exited"
    /\ UNCHANGED <<pam, end_header_index, pam_data, pam_iter, argb_data_list,
                   argb_data, exc, decoder, decoderCalls, iterations, log,
                   preExisted, fileExists, fileContent, fileOpen, openCount>>

Next ==
    \/ Png2pam
    \/ CheckSignature
    \/ FindEndHeader
    \/ ExtractPayload
    \/ CheckLength
    \/ Rearrange
    \/ ToBytes
    \/ OpenOutput
    \/ WriteOutput
    \/ CloseOutput
    \/ Exit

Spec == Init /\ [][Next]_vars

----------------------------------------------------------------------------
(* The rearrangement loop on its own: lines 35-49 applied to any short     *)
(* payload, as if the length test had let it through.                      *)

LoopBytes == {0, 7, 255}

LoopPayloads == UNION {[1..n -> LoopBytes] : n \in 0..MaxLoopLen}

LoopInit ==
    /\ pc = "rearrange"
    /\ pam_data \in LoopPayloads
    /\ pam = HdrMinimal \o pam_data
    /\ end_header_index = Len(HdrMinimal)
    /\ pam_iter = 0
    /\ argb_data_list = <<>>
    /\ argb_data = <<>>
    /\ exc = "None"
    /\ exitCode = -1
    /\ decoder = "ok"
    /\ decoderCalls = 1
    /\ iterations = 0
    /\ log = SubSeq(Pipeline, 1, 5)
    /\ preExisted = FALSE
    /\ fileExists = FALSE
    /\ fileContent = <<>>
    /\ fileOpen = FALSE
    /\ openCount = 0

LoopNext ==
    \/ Rearrange
    \/ ToBytes
    \/ Exit

LoopSpec == LoopInit /\ [][LoopNext]_vars

----------------------------------------------------------------------------
(* Vocabulary of the properties. *)

\* the container starts with the signature
Signed(s) == StartsWith(s, PAM_SIGNATURE)

\* the container holds the end-of-header marker somewhere
Marked(s) == \E i \in 0..(Len(s) - Len(END_HEADER_CHUNK)) : MatchAt(s, END_HEADER_CHUNK, i)

\* the bytes after the first marker
PayloadOf(s) == SliceFrom(s, Find(s, END_HEADER_CHUNK) + Len(END_HEADER_CHUNK))

\* out holds the groups (a, r, g, b) where payload holds (r, g, b, a), in order
IsArgbOf(out, payload) ==
    /\ Len(out) = Len(payload)
    /\ \A i \in 0..((Len(payload) \div 4) - 1) :
         /\ out[4 * i + 1] = payload[4 * i + 4]
         /\ out[4 * i + 2] = payload[4 * i + 1]
         /\ out[4 * i + 3] = payload[4 * i + 2]
         /\ out[4 * i + 4] = payload[4 * i + 3]

\* the output path is as it was before the run
Untouched ==
    /\ fileExists = preExisted
    /\ preExisted => fileContent = OldContent

IsPrefix(s, t) == Len(s) <= Len(t) /\ SubSeq(t, 1, Len(s)) = s

\* the run is over, normally or by an exception
Ended == pc \in {"returned", "raised", "exited"}

----------------------------------------------------------------------------
(* C1: a container with the signature, the marker and exactly 4096 bytes   *)
(* after the first marker is converted: the conversion reaches the point   *)
(* where the output buffer exists, the buffer has the payload's length     *)
(* (4096) and its bytes 4i..4i+3 are (a, r, g, b) of payload group i,      *)
(* whatever the byte values are.                                           *)
C1_Permutation ==
    (/\ decoder = "ok"
     /\ pc \in {"open", "raised"}
     /\ Len(log) <= 7
     /\ Signed(pam) /\ Marked(pam)
     /\ Len(PayloadOf(pam)) = EXPECTED_LEN)
    => /\ pc = "open"
       /\ Len(argb_data) = EXPECTED_LEN
       /\ IsArgbOf(argb_data, PayloadOf(pam))

\* a converted payload that spells the marker (and so holds it again and again)
C1_Witness ==
    /\ pc = "open"
    /\ Len(argb_data) = EXPECTED_LEN
    /\ MatchAt(pam_data, END_HEADER_CHUNK, 0)
    /\ MatchAt(pam_data, END_HEADER_CHUNK, EXPECTED_LEN - Len(END_HEADER_CHUNK))
    /\ argb_data[1] = 68 /\ argb_data[2] = 10

(* C2: with the signature and the marker present, the conversion goes on   *)
(* past the length test if and only if exactly 4096 bytes follow the       *)
(* marker; any other length ends the run with the wrong-length error, no   *)
(* pass of the loop made, no output buffer built and the output path not   *)
(* touched.                                                                 *)
C2_LengthIff ==
    (/\ decoder = "ok"
     /\ pc \in {"rearrange", "exited"}
     /\ Signed(pam) /\ Marked(pam))
    => IF Len(PayloadOf(pam)) = EXPECTED_LEN
         THEN /\ exc # "ValueError: wrong length"
              /\ Len(log) >= 5
              /\ pc = "exited" => Len(log) >= 8
         ELSE /\ pc = "exited"
              /\ exc = "ValueError: wrong length"
              /\ log = SubSeq(Pipeline, 1, 5)
              /\ iterations = 0
              /\ argb_data_list = <<>>
              /\ argb_data = <<>>
              /\ openCount = 0
              /\ Untouched

\* a payload one byte too long has been rejected
C2_Witness ==
    /\ pc = "exited"
    /\ exc = "ValueError: wrong length"
    /\ Len(pam_data) = EXPECTED_LEN + 1
    /\ Signed(pam)

(* C3: when the decoder output does not start with the signature, the run  *)
(* ends with the invalid-container error right after the signature test:   *)
(* the marker is not searched for, no payload is taken or measured,        *)
(* whether or not the marker is there and whatever follows it.             *)
C3_SignatureFirst ==
    (/\ decoder = "ok"
     /\ pc \notin {"png2pam", "startswith"}
     /\ ~Signed(pam))
    => /\ pc \in {"raised", "exited"}
       /\ exc = "ValueError: invalid PAM"
       /\ log = <<"png2pam", "startswith">>
       /\ end_header_index = 0
       /\ pam_data = <<>>
       /\ argb_data = <<>>
       /\ Untouched

\* a container with a wrong signature, the marker and a 4096-byte payload was rejected
C3_Witness ==
    /\ pc = "exited"
    /\ exc = "ValueError: invalid PAM"
    /\ Len(pam) = Len(HdrBadSig) + EXPECTED_LEN
    /\ MatchAt(pam, END_HEADER_CHUNK, 2)

(* C4: when the decoder output starts with the signature and holds no      *)
(* marker, the marker search fails with the lookup error and the run ends  *)
(* there: no payload is extracted, the length test and the loop are not    *)
(* reached.                                                                 *)
C4_MissingMarker ==
    (/\ decoder = "ok"
     /\ pc \in {"slice", "raised", "exited"}
     /\ Signed(pam)
     /\ ~Marked(pam))
    => /\ pc \in {"raised", "exited"}
       /\ exc = "ValueError: subsection not found"
       /\ log = <<"png2pam", "startswith", "index">>
       /\ end_header_index = 0
       /\ pam_data = <<>>
       /\ iterations = 0
       /\ argb_data = <<>>
       /\ Untouched

\* a signed container without the marker, 4096 bytes after its header, was rejected
C4_Witness ==
    /\ pc = "exited"
    /\ exc = "ValueError: subsection not found"
    /\ Len(pam) = Len(HdrNoMarker) + EXPECTED_LEN

(* C5: at the end of every run the output path is either as it was before  *)
(* the run or holds the complete 4096-byte converted buffer; it is never   *)
(* left empty or short.                                                     *)
C5_NoPartialOutput ==
    pc = "exited"
    => \/ Untouched
       \/ /\ fileExists
          /\ Len(fileContent) = EXPECTED_LEN
          /\ fileContent = argb_data

C7_HandleClosed ==
    /\ openCount <= 1
    /\ openCount = 1 =>
         /\ Len(log) >= 8
         /\ log[7] = "bytes"
         /\ iterations = (32 * 32)
         /\ Len(argb_data) = EXPECTED_LEN
    /\ fileOpen => openCount = 1 /\ pc \in {"write", "close"}
    /\ Ended => ~fileOpen

\* a run whose write failed has ended with the file closed
C7_Witness ==
    /\ pc = "exited"
    /\ exc = "OSError"
    /\ openCount = 1
    /\ log = Pipeline
    /\ ~fileOpen

(* C8: the decoder is called exactly once per run and before anything      *)
(* else; the steps are taken in program order, each at most once, on the   *)
(* bytes the decoder returned; when the decoder is missing, exits non-zero *)
(* or is killed, the run ends at once with that error, without a second    *)
(* call, a parsing step or a file operation.                               *)
C8_DecoderOnceThenOrder ==
    /\ IsPrefix(log, Pipeline)
    /\ decoderCalls = (IF pc = "png2pam" THEN 0 ELSE 1)
    /\ Len(log) >= 2 => decoder = "ok"
    /\ decoder \notin {"ok", "not run"} =>
         /\ pc \in {"raised", "exited"}
         /\ exc = (IF decoder = "missing" THEN "FileNotFoundError" ELSE "CalledProcessError")
         /\ log = <<"png2pam">>
         /\ pam = <<>>
         /\ pam_data = <<>>
         /\ openCount = 0
         /\ Untouched

\* a run whose decoder was killed by a signal has exited after the one call
C8_Witness ==
    /\ pc = "exited"
    /\ decoder = "signal"
    /\ decoderCalls = 1
    /\ exitCode = 1

(* C9: in the loop, a payload that ends after the red byte of a group and  *)
(* before its alpha byte makes the conversion raise (StopIteration): the   *)
(* loop is not left normally, no output buffer is built, nothing is        *)
(* opened or written.                                                      *)
C9_TruncationFatal ==
    (/\ Len(pam_data) % 4 # 0
     /\ pc # "rearrange")
    => /\ pc \in {"raised", "exited"}
       /\ exc = "StopIteration"
       /\ iterations = Len(pam_data) \div 4
       /\ log = SubSeq(Pipeline, 1, 6)
       /\ argb_data = <<>>
       /\ openCount = 0
       /\ ~fileExists

\* a 5-byte payload: one group converted, then the red byte of a group with nothing after it
C9_Witness ==
    /\ pc = "exited"
    /\ exc = "StopIteration"
    /\ Len(pam_data) = 5
    /\ iterations = 1
    /\ exitCode = 1

(* C10: for a payload that passed the length test the loop ends, and it    *)
(* ends after exactly 1024 passes: the end of the data is met only at a    *)
(* group boundary, a red byte 0 does not end the loop, and no group is cut *)
(* short (StopIteration is never raised).                                  *)
C10_LoopTerminates ==
    /\ pc # "loop"
    /\ exc # "StopIteration"
    /\ Len(log) >= 6 =>
         /\ Len(pam_data) = EXPECTED_LEN
         /\ iterations = 32 * 32
         /\ pam_iter = Len(pam_data)
         /\ Len(argb_data_list) = EXPECTED_LEN

\* the loop was left after 1024 passes over a payload whose first red byte is 0
C10_Witness ==
    /\ pc = "bytes"
    /\ iterations = 32 * 32
    /\ pam_data[1] = 0
    /\ pam_data[5] = 0

====
